---- MODULE Spec2Model ----
(***************************************************************************)
(* Model of the Forward AI data service (lib/data_service/data_service.py): *)
(* the corpus provider with its mock fallback, the skill extraction         *)
(* pipeline, the lazy singleton accessor of the service and the greedy MMR  *)
(* selection that the keyword extractor runs.                               *)
(*                                                                          *)
(* Strings that the code trims and case-folds (job titles) are sequences of *)
(* one-character strings.  Description texts are sequences of items, an     *)
(* item being a word or a markup tag.                                       *)
(***************************************************************************)
EXTENDS Integers, Sequences, FiniteSets, TLC

\* ------------------------------------------------------------------ bounds
MaxPad == 1
MaxTopN == 2
MaxResults == 1
MaxCand == 3
NumThreads == 2

\* Python's None
None == "None"

\* ------------------------------------------------------------ characters
UpperChars == <<"A","B","C","D","E","F","G","H","I","J","K","L","M",
                "N","O","P","Q","R","S","T","U","V","W","X","Y","Z">>
LowerChars == <<"a","b","c","d","e","f","g","h","i","j","k","l","m",
                "n","o","p","q","r","s","t","u","v","w","x","y","z">>

Whitespace == {" ", "\t", "\n"}

\* str.lower() on one character
LowerChar(c) ==
    IF \E i \in 1..Len(UpperChars) : UpperChars[i] = c
    THEN LowerChars[CHOOSE i \in 1..Len(UpperChars) : UpperChars[i] = c]
    ELSE c

\* str.upper() on one character (used to build the inputs only)
UpperChar(c) ==
    IF \E i \in 1..Len(LowerChars) : LowerChars[i] = c
    THEN UpperChars[CHOOSE i \in 1..Len(LowerChars) : LowerChars[i] = c]
    ELSE c

\* str.lower()
StrLower(s) == [i \in 1..Len(s) |-> LowerChar(s[i])]

RECURSIVE LStrip(_)
LStrip(s) ==
    IF s # <<>> /\ Head(s) \in Whitespace THEN LStrip(Tail(s)) ELSE s

RECURSIVE RStrip(_)
RStrip(s) ==
    IF s # <<>> /\ s[Len(s)] \in Whitespace
    THEN RStrip(SubSeq(s, 1, Len(s) - 1))
    ELSE s

\* str.strip()
StrStrip(s) == RStrip(LStrip(s))

\* ------------------------------------------------------- the mock table
KeyDefault == <<"d","e","f","a","u","l","t">>
KeyFlutter == <<"f","l","u","t","t","e","r"," ","d","e","v","e","l","o","p","e","r">>
KeyDataSci == <<"d","a","t","a"," ","s","c","i","e","n","t","i","s","t">>
KeyBackend == <<"b","a","c","k","e","n","d"," ","d","e","v","e","l","o","p","e","r">>
KeyFrontend == <<"f","r","o","n","t","e","n","d"," ","d","e","v","e","l","o","p","e","r">>
KeyDevops == <<"d","e","v","o","p","s"," ","e","n","g","i","n","e","e","r">>

MockKeys == {KeyDefault, KeyFlutter, KeyDataSci, KeyBackend, KeyFrontend, KeyDevops}

\* MOCK_JOB_DESCRIPTIONS: each description is abridged to its leading skill
\* words; the number of descriptions per key is the table's.
MOCK_JOB_DESCRIPTIONS ==
    [k \in MockKeys |->
        CASE k = KeyDefault  -> << <<"Python", "and", "SQL">>, <<"the", "algorithms">> >>
          [] k = KeyFlutter  -> << <<"Flutter", "Dart">>, <<"mobile">>, <<"Flutter", "engineer">> >>
          [] k = KeyDataSci  -> << <<"Data", "Python">>, <<"Data", "NLP">> >>
          [] k = KeyBackend  -> << <<"Backend", "Docker">>, <<"a", "Java">> >>
          [] k = KeyFrontend -> << <<"Frontend", "React">>, <<"Git">> >>
          [] k = KeyDevops   -> << <<"DevOps", "Docker">>, <<"engineer">> >>]

\* dict.get(key, default)
DictGet(table, key, default) ==
    IF key \in DOMAIN table THEN table[key] ELSE default

GetMockDescriptions_NoStrip(job_title) ==
    DictGet(MOCK_JOB_DESCRIPTIONS, StrLower(job_title), MOCK_JOB_DESCRIPTIONS[KeyDefault])

\* SkillExtractorService._get_mock_descriptions
GetMockDescriptions(job_title) ==
    LET key == StrLower(StrStrip(job_title))
    IN  DictGet(MOCK_JOB_DESCRIPTIONS, key, MOCK_JOB_DESCRIPTIONS[KeyDefault])

\* --------------------------------------------------- the primary source
MarkupTags == {"<p>", "<b>", "</b>"}

\* BeautifulSoup(raw, "html.parser").get_text(separator=" ", strip=True):
\* the markup is dropped and the text pieces are kept in order
IsText(item) == item \notin MarkupTags
GetText(raw) == SelectSeq(raw, IsText)

\* The "description" values a job listing of the response can carry
RawDescriptions ==
    { <<>>, <<"<p>">>, <<"the">>, <<"<b>", "Python", "</b>", "and", "SQL">> }

\* A job listing: a dict with or without the "description" key
Jobs == { [has |-> FALSE, description |-> <<>>] }
        \cup { [has |-> TRUE, description |-> d] : d \in RawDescriptions }

\* job.get("description", "")
JobDescription(job) == IF job.has THEN job.description ELSE <<>>

RECURSIVE SeqsUpTo(_, _)
SeqsUpTo(S, n) ==
    IF n = 0 THEN { <<>> }
    ELSE LET shorter == SeqsUpTo(S, n - 1)
         IN  shorter \cup { Append(q, x) : q \in shorter, x \in S }

\* What one request to the primary source can come to: requests.get raises
\* (network error, timeout), raise_for_status raises (4xx/5xx), or the body
\* is read, with or without a "results" key.
FailureKinds == {"network_error", "timeout", "http_error"}
Outcomes ==
    { [kind |-> k, has_results |-> FALSE, results |-> <<>>] : k \in FailureKinds }
    \cup { [kind |-> "ok", has_results |-> FALSE, results |-> <<>>] }
    \cup { [kind |-> "ok", has_results |-> TRUE, results |-> r] :
             r \in SeqsUpTo(Jobs, MaxResults) }

\* The outcome recorded when no request was made
NotAttempted == [kind |-> "not_attempted", has_results |-> FALSE, results |-> <<>>]

\* data.get("results", [])
ResponseResults(outcome) ==
    IF outcome.has_results THEN outcome.results ELSE <<>>

\* The loop of lines 305-313: the non-empty descriptions, cleaned, in order
RECURSIVE CleanDescriptions(_)
CleanDescriptions(results) ==
    IF results = <<>> THEN <<>>
    ELSE LET raw_description == JobDescription(Head(results))
             rest == CleanDescriptions(Tail(results))
         IN  IF raw_description # <<>>
             THEN <<GetText(raw_description)>> \o rest
             ELSE rest

\* A function's result: the value it returns, or raised = TRUE; http_calls
\* counts the requests.get calls made on the way.
Returned(v, n) == [raised |-> FALSE, value |-> v, http_calls |-> n]
Raised(n) == [raised |-> TRUE, value |-> <<>>, http_calls |-> n]

\* SkillExtractorService._fetch_from_adzuna
FetchFromAdzuna(job_title, outcome) ==
    IF outcome.kind # "ok" THEN Raised(1)
    ELSE LET results == ResponseResults(outcome)
         IN  IF results = <<>>
             THEN Returned(GetMockDescriptions(job_title), 1)
             ELSE Returned(CleanDescriptions(results), 1)

\* os.environ.get(...) of a credential: unset, set empty, or set
CredentialValues == {None, "", "id"}

\* Python's truth value of a credential
Truthy(v) == v # None /\ v # ""

FetchJobDescriptions_NoExcept(job_title, adzuna_app_id, adzuna_app_key, outcome) ==
    IF ~Truthy(adzuna_app_id) \/ ~Truthy(adzuna_app_key)
    THEN Returned(GetMockDescriptions(job_title), 0)
    ELSE FetchFromAdzuna(job_title, outcome)

FetchJobDescriptions_RetryOnce(job_title, adzuna_app_id, adzuna_app_key, outcome) ==
    IF ~Truthy(adzuna_app_id) \/ ~Truthy(adzuna_app_key)
    THEN Returned(GetMockDescriptions(job_title), 0)
    ELSE LET r == FetchFromAdzuna(job_title, outcome)
             again == FetchFromAdzuna(job_title, outcome)
         IN  IF ~r.raised THEN r
             ELSE IF again.raised
             THEN Returned(GetMockDescriptions(job_title), r.http_calls + again.http_calls)
             ELSE Returned(again.value, r.http_calls + again.http_calls)

FetchJobDescriptions_DefaultOnFailure(job_title, adzuna_app_id, adzuna_app_key, outcome) ==
    IF ~Truthy(adzuna_app_id) \/ ~Truthy(adzuna_app_key)
    THEN Returned(GetMockDescriptions(job_title), 0)
    ELSE LET r == FetchFromAdzuna(job_title, outcome)
         IN  IF r.raised
             THEN Returned(MOCK_JOB_DESCRIPTIONS[KeyDefault], r.http_calls)
             ELSE r

\* SkillExtractorService._fetch_job_descriptions
FetchJobDescriptions(job_title, adzuna_app_id, adzuna_app_key, outcome) ==
    IF ~Truthy(adzuna_app_id) \/ ~Truthy(adzuna_app_key)
    THEN Returned(GetMockDescriptions(job_title), 0)
    ELSE LET r == FetchFromAdzuna(job_title, outcome)
         IN  IF r.raised
             THEN Returned(GetMockDescriptions(job_title), r.http_calls)
             ELSE r

\* ------------------------------------------------ the keyword extractor
\* keyphrase_ngram_range=(1, 3)
NgramMin == 1
NgramMax == 3
\* diversity=0.5, as the fraction DiversityNum / DiversityDen
DiversityNum == 1
DiversityDen == 2

\* The words of the texts, each with its lower-case form
Vocabulary ==
    << <<"Python", "python">>, <<"SQL", "sql">>, <<"Flutter", "flutter">>,
       <<"Dart", "dart">>, <<"Data", "data">>, <<"NLP", "nlp">>,
       <<"Backend", "backend">>, <<"Docker", "docker">>, <<"Java", "java">>,
       <<"Frontend", "frontend">>, <<"React", "react">>, <<"Git", "git">>,
       <<"DevOps", "devops">>, <<"algorithms", "algorithms">>,
       <<"mobile", "mobile">>, <<"engineer", "engineer">>,
       <<"the", "the">>, <<"and", "and">>, <<"a", "a">> >>

Words == { Vocabulary[i][1] : i \in 1..Len(Vocabulary) }
         \cup { Vocabulary[i][2] : i \in 1..Len(Vocabulary) }

\* the position of each word in Vocabulary
WordIndex ==
    [w \in Words |->
        CHOOSE i \in 1..Len(Vocabulary) : Vocabulary[i][1] = w \/ Vocabulary[i][2] = w]

\* str.lower() on a word
WordLower(w) == Vocabulary[WordIndex[w]][2]

\* stop_words="english", restricted to the words of the texts
StopWords == {"the", "and", "a"}

RECURSIVE Flatten(_)
Flatten(ss) == IF ss = <<>> THEN <<>> ELSE Head(ss) \o Flatten(Tail(ss))

\* " ".join(descriptions): the words of the descriptions, in order
JoinDescriptions(descriptions) == Flatten(descriptions)

\* Candidate Generator: lower-case, drop the stop words
IsKept(w) == w \notin StopWords
Tokens(text) == SelectSeq([i \in 1..Len(text) |-> WordLower(text[i])], IsKept)

RECURSIVE Dedup(_, _)
Dedup(spans, seen) ==
    IF spans = <<>> THEN <<>>
    ELSE IF Head(spans) \in seen THEN Dedup(Tail(spans), seen)
    ELSE <<Head(spans)>> \o Dedup(Tail(spans), seen \cup {Head(spans)})

RECURSIVE SpansFrom(_, _, _)
SpansFrom(toks, i, l) ==
    IF i > Len(toks) THEN <<>>
    ELSE IF l > NgramMax \/ i + l - 1 > Len(toks) THEN SpansFrom(toks, i + 1, NgramMin)
    ELSE <<SubSeq(toks, i, i + l - 1)>> \o SpansFrom(toks, i, l + 1)

\* Candidate Generator: the distinct spans of 1 to 3 tokens, in the order of
\* their first occurrence in the text
Candidates(text) == Dedup(SpansFrom(Tokens(text), 1, NgramMin), {})

\* Embedding Model: a text span as a vector of two non-negative integers;
\* model m puts each word on one of two axes.
Models == {"model_a", "model_b"}
ModelSeed(m) == IF m = "model_a" THEN 1 ELSE 2
WordAxis(m, w) == ((WordIndex[w] * ModelSeed(m)) % 2) + 1
Embed(m, span) ==
    [axis \in 1..2 |-> Cardinality({i \in 1..Len(span) : WordAxis(m, span[i]) = axis})]
Dot(u, v) == u[1] * v[1] + u[2] * v[2]

\* the function f over 1..n as an explicit table, so that it is computed once
Tabulate(f) == IF f = <<>> THEN <<>> ELSE f

\* Relevance Ranker: the similarity of each candidate's vector to the vector
\* of the whole document
Relevance(vecs, doc) == Tabulate([c \in 1..Len(vecs) |-> Dot(vecs[c], doc)])
Similarity(vecs) ==
    [c \in 1..Len(vecs) |-> [s \in 1..Len(vecs) |-> Dot(vecs[c], vecs[s])]]

\* ------------------------------------------------- Diversity Selector
\* Candidates are numbered 1..n in first-occurrence order; rel[c] is the
\* relevance of c, sim[c][s] the similarity of c and s, d / DiversityDen the
\* diversity.
SetMax(S) == CHOOSE x \in S : \A y \in S : y <= x

MaxSimilarity(c, selected, sim) ==
    IF selected = <<>> THEN 0
    ELSE SetMax({ sim[c][selected[i]] : i \in 1..Len(selected) })

\* step 3a, scaled by DiversityDen
MMR(c, selected, rel, sim, d) ==
    d * rel[c] - (DiversityDen - d) * MaxSimilarity(c, selected, sim)

Beats_NoOrderTieBreak(a, b, mmr, rel) ==
    \/ mmr[a] > mmr[b]
    \/ mmr[a] = mmr[b] /\ rel[a] > rel[b]

\* step 3b: a is preferred to b, mmr[c] being the MMR value of candidate c
Beats(a, b, mmr, rel) ==
    \/ mmr[a] > mmr[b]
    \/ /\ mmr[a] = mmr[b]
       /\ \/ rel[a] > rel[b]
          \/ rel[a] = rel[b] /\ a < b

\* step 3b: the candidates of remaining that no other one is preferred to
Winners(remaining, selected, rel, sim, d) ==
    LET mmr == [c \in remaining |-> MMR(c, selected, rel, sim, d)]
    IN  { c \in remaining : \A o \in remaining \ {c} : ~Beats(o, c, mmr, rel) }

\* step 2: the highest relevance, the earliest candidate among equals
FirstWinners(remaining, rel) ==
    { c \in remaining :
        \A o \in remaining \ {c} : ~(rel[o] > rel[c] \/ (rel[o] = rel[c] /\ o < c)) }

\* step 3: the loop condition
LoopContinues(selected, remaining, top_n) ==
    Len(selected) < top_n /\ remaining # {}

Remove_Keep(remaining, c) == remaining

\* "remove from Remaining"
Remove(remaining, c) == remaining \ {c}

RECURSIVE MMRLoop(_, _, _, _, _, _)
MMRLoop(selected, remaining, rel, sim, top_n, d) ==
    IF LoopContinues(selected, remaining, top_n)
    THEN LET c == CHOOSE x \in Winners(remaining, selected, rel, sim, d) : TRUE
         IN  MMRLoop(Append(selected, c), Remove(remaining, c), rel, sim, top_n, d)
    ELSE selected

\* steps 1-4: the selected candidates, in selection order
MMRSelect(n, rel, sim, top_n, d) ==
    IF n = 0 THEN <<>>
    ELSE LET first == CHOOSE x \in FirstWinners(1..n, rel) : TRUE
         IN  MMRLoop(<<first>>, Remove(1..n, first), rel, sim, top_n, d)

\* KeyBERT.extract_keywords(text, keyphrase_ngram_range=(1, 3),
\* stop_words="english", top_n=top_n, use_mmr=True, diversity=0.5):
\* the surface forms selected, in selection order
KeyBERTExtract(m, text, top_n) ==
    LET cands == Candidates(text)
        vecs == Tabulate([c \in 1..Len(cands) |-> Embed(m, cands[c])])
        doc == Embed(m, Tokens(text))
        picked == MMRSelect(Len(cands), Relevance(vecs, doc), Similarity(vecs),
                            top_n, DiversityNum)
    IN  [i \in 1..Len(picked) |-> cands[picked[i]]]

\* What the call into the library can come to
LibOutcomes == {"ok", "raise"}

ExtractKeywords_NoModelGuard(kw_model, text, top_n, lib) ==
    IF lib = "raise" THEN Returned(<<>>, 0)
    ELSE Returned(KeyBERTExtract(IF kw_model = None THEN "model_a" ELSE kw_model, text, top_n), 0)

ExtractKeywords_NoExcept(kw_model, text, top_n, lib) ==
    IF kw_model = None THEN Returned(<<>>, 0)
    ELSE IF lib = "raise" THEN Raised(0)
    ELSE Returned(KeyBERTExtract(kw_model, text, top_n), 0)

\* SkillExtractorService._extract_keywords
ExtractKeywords(kw_model, text, top_n, lib) ==
    IF kw_model = None THEN Returned(<<>>, 0)
    ELSE IF lib = "raise" THEN Returned(<<>>, 0)
    ELSE Returned(KeyBERTExtract(kw_model, text, top_n), 0)

\* SkillExtractorService.extract_skills; the record keeps the corpus and the
\* aggregated text of the call beside its result
ExtractSkills(kw_model, job_title, top_n, app_id, app_key, outcome, lib) ==
    LET fetched == FetchJobDescriptions(job_title, app_id, app_key, outcome)
        descriptions == fetched.value
        aggregated_text == JoinDescriptions(descriptions)
        skills == ExtractKeywords(kw_model, aggregated_text, top_n, lib)
    IN  IF fetched.raised
        THEN [raised |-> TRUE, skills |-> <<>>, corpus |-> <<>>,
              text |-> <<>>, http_calls |-> fetched.http_calls, ranked |-> FALSE]
        ELSE IF descriptions = <<>>
        THEN [raised |-> FALSE, skills |-> <<>>, corpus |-> descriptions,
              text |-> <<>>, http_calls |-> fetched.http_calls, ranked |-> FALSE]
        ELSE [raised |-> skills.raised, skills |-> skills.value,
              corpus |-> descriptions, text |-> aggregated_text,
              http_calls |-> fetched.http_calls, ranked |-> TRUE]

\* ------------------------------------------------------------ job titles
\* The titles a request can carry: a base title, in one of three casings,
\* with up to MaxPad whitespace characters before and after it.
KeyUnknown == <<"q","a"," ","t","e","s","t","e","r">>
BaseTitles == MockKeys \cup {KeyUnknown, <<>>}
Casings == {"lower", "upper", "title"}

Recase(base, casing) ==
    [i \in 1..Len(base) |->
        IF casing = "upper" \/ (casing = "title" /\ (i = 1 \/ base[i - 1] = " "))
        THEN UpperChar(base[i])
        ELSE base[i]]

Pad(n, ch) == [i \in 1..n |-> ch]

MakeTitle(base, casing, before, after) ==
    Pad(before, " ") \o Recase(base, casing) \o Pad(after, "\n")

\* ----------------------------------------------------------------- state
VARIABLES
    app_id,          \* os.environ["ADZUNA_APP_ID"], None when unset
    app_key,         \* os.environ["ADZUNA_APP_KEY"], None when unset
    skill_service,   \* the module global: NoService, or the index of an instance
    instances,       \* the SkillExtractorService objects built so far
    last,            \* the last extract_skills call: its inputs and its result
    tpc,             \* each request thread's position in get_skill_service
    tnew,            \* each thread's freshly built instance, or NoService
    tobs,            \* the instance each thread's get_skill_service returned
    sel,             \* the Diversity Selector's input
    run              \* the two runs of the Diversity Selector on that input

vars == <<app_id, app_key, skill_service, instances, last, tpc, tnew, tobs, sel, run>>

Threads == 1..NumThreads

\* skill_service = None (line 404): no instance yet
NoService == 0
NoCall == [called |-> FALSE]
NoSel == [n |-> 0]
NoRun == <<>>

Configured == Truthy(app_id) /\ Truthy(app_key)

\* SkillExtractorService.__init__: the model loads, or the handle is None
NewInstances == { [kw_model |-> m] : m \in Models \cup {None} }

\* ---------------------------------------------- the request pipeline
Init ==
    /\ app_id \in CredentialValues
    /\ app_key \in CredentialValues
    /\ skill_service = NoService
    /\ instances = <<>>
    /\ last = NoCall
    /\ tpc = [t \in Threads |-> "idle"]
    /\ tnew = [t \in Threads |-> NoService]
    /\ tobs = [t \in Threads |-> NoService]
    /\ sel = NoSel
    /\ run = NoRun

\* get_skill_service, run by one thread alone
GetSkillService ==
    /\ IF skill_service = NoService
       THEN \E inst \in NewInstances :
               /\ instances' = Append(instances, inst)
               /\ skill_service' = Len(instances) + 1
       ELSE UNCHANGED <<skill_service, instances>>
    /\ UNCHANGED <<app_id, app_key, last, tpc, tnew, tobs, sel, run>>

\* service.extract_skills(job_title, top_n) on the service the accessor gave
ExtractSkillsCall ==
    /\ skill_service # NoService
    /\ last = NoCall
    /\ LET kw_model == instances[skill_service].kw_model
       IN  \E base \in BaseTitles, casing \in Casings,
              before \in 0..MaxPad, after \in 0..MaxPad, top_n \in 0..MaxTopN :
           \E outcome \in (IF Configured THEN Outcomes ELSE {NotAttempted}) :
           \E lib \in (IF kw_model = None THEN {"not_called"} ELSE LibOutcomes) :
              LET job_title == MakeTitle(base, casing, before, after)
              IN  last' = [called |-> TRUE, base |-> base, casing |-> casing,
                           job_title |-> job_title,
                           top_n |-> top_n, outcome |-> outcome, lib |-> lib,
                           kw_model |-> kw_model,
                           res |-> ExtractSkills(kw_model, job_title, top_n,
                                                 app_id, app_key, outcome, lib)]
    /\ UNCHANGED <<app_id, app_key, skill_service, instances, tpc, tnew, tobs, sel, run>>

Next == GetSkillService \/ ExtractSkillsCall

Spec == Init /\ [][Next]_vars

\* ------------------------------- concurrent first calls of the accessor
\* Request threads run get_skill_service line by line: the test of line 413,
\* the construction and the store of line 414, the read of line 415.
InitConc ==
    /\ app_id = None
    /\ app_key = None
    /\ skill_service = NoService
    /\ instances = <<>>
    /\ last = NoCall
    /\ tpc = [t \in Threads |-> "idle"]
    /\ tnew = [t \in Threads |-> NoService]
    /\ tobs = [t \in Threads |-> NoService]
    /\ sel = NoSel
    /\ run = NoRun

\* the entry point's pre-load (lines 546-547), before any request is served
Preload ==
    /\ \A t \in Threads : tpc[t] = "idle"
    /\ instances = <<>>
    /\ GetSkillService

\* line 413: if skill_service is None
TestService(t) ==
    /\ tpc[t] = "idle"
    /\ tpc' = [tpc EXCEPT ![t] = IF skill_service = NoService THEN "construct" ELSE "return"]
    /\ UNCHANGED <<app_id, app_key, skill_service, instances, last, tnew, tobs, sel, run>>

\* line 414, right-hand side: SkillExtractorService()
Construct(t) ==
    /\ tpc[t] = "construct"
    /\ \E inst \in NewInstances :
          /\ instances' = Append(instances, inst)
          /\ tnew' = [tnew EXCEPT ![t] = Len(instances) + 1]
    /\ tpc' = [tpc EXCEPT ![t] = "store"]
    /\ UNCHANGED <<app_id, app_key, skill_service, last, tobs, sel, run>>

\* line 414, the store to the global
StoreService(t) ==
    /\ tpc[t] = "store"
    /\ skill_service' = tnew[t]
    /\ tpc' = [tpc EXCEPT ![t] = "return"]
    /\ UNCHANGED <<app_id, app_key, instances, last, tnew, tobs, sel, run>>

\* line 415: return skill_service
ReturnService(t) ==
    /\ tpc[t] = "return"
    /\ tobs' = [tobs EXCEPT ![t] = skill_service]
    /\ tpc' = [tpc EXCEPT ![t] = "done"]
    /\ UNCHANGED <<app_id, app_key, skill_service, instances, last, tnew, sel, run>>

NextConc ==
    \/ Preload
    \/ \E t \in Threads : TestService(t)
    \/ \E t \in Threads : Construct(t)
    \/ \E t \in Threads : StoreService(t)
    \/ \E t \in Threads : ReturnService(t)

SpecConc == InitConc /\ [][NextConc]_vars

\* ------------------------------------ two runs of the Diversity Selector
Scores == {0, 1}
Runs == {1, 2}

Pairs(n) == { p \in (1..n) \X (1..n) : p[1] < p[2] }

\* the symmetric similarity table that gives each pair its score
SimOf(f, n) ==
    [c \in 1..n |-> [s \in 1..n |->
        IF c = s THEN SetMax(Scores)
        ELSE IF c < s THEN f[<<c, s>>] ELSE f[<<s, c>>]]]

SelInputs ==
    UNION { { [n |-> n, rel |-> rel, sim |-> SimOf(f, n), top_n |-> top_n, d |-> d] :
                rel \in [1..n -> Scores], f \in [Pairs(n) -> Scores],
                top_n \in 0..(MaxCand + 1), d \in 0..DiversityDen } :
            n \in 0..MaxCand }

InitSel ==
    /\ app_id = None
    /\ app_key = None
    /\ skill_service = NoService
    /\ instances = <<>>
    /\ last = NoCall
    /\ tpc = [t \in Threads |-> "idle"]
    /\ tnew = [t \in Threads |-> NoService]
    /\ tobs = [t \in Threads |-> NoService]
    /\ sel \in SelInputs
    /\ run = [r \in Runs |-> [pc |-> "start", selected |-> <<>>, remaining |-> {}]]

\* steps 1 and 2
SelectFirst(r) ==
    /\ run[r].pc = "start"
    /\ r = 1 \/ run[1].pc = "done"
    /\ IF sel.n = 0
       THEN run' = [run EXCEPT ![r] = [pc |-> "loop", selected |-> <<>>, remaining |-> {}]]
       ELSE \E c \in FirstWinners(1..sel.n, sel.rel) :
               run' = [run EXCEPT ![r] = [pc |-> "loop", selected |-> <<c>>,
                                          remaining |-> Remove(1..sel.n, c)]]
    /\ UNCHANGED <<app_id, app_key, skill_service, instances, last, tpc, tnew, tobs, sel>>

\* step 3, one iteration
SelectNext(r) ==
    /\ run[r].pc = "loop"
    /\ LoopContinues(run[r].selected, run[r].remaining, sel.top_n)
    /\ \E c \in Winners(run[r].remaining, run[r].selected, sel.rel, sel.sim, sel.d) :
          run' = [run EXCEPT ![r].selected = Append(@, c),
                             ![r].remaining = Remove(@, c)]
    /\ UNCHANGED <<app_id, app_key, skill_service, instances, last, tpc, tnew, tobs, sel>>

\* step 4
SelectReturn(r) ==
    /\ run[r].pc = "loop"
    /\ ~LoopContinues(run[r].selected, run[r].remaining, sel.top_n)
    /\ run' = [run EXCEPT ![r].pc = "done"]
    /\ UNCHANGED <<app_id, app_key, skill_service, instances, last, tpc, tnew, tobs, sel>>

NextSel ==
    \/ \E r \in Runs : SelectFirst(r)
    \/ \E r \in Runs : SelectNext(r)
    \/ \E r \in Runs : SelectReturn(r)

SpecSel == InitSel /\ [][NextSel]_vars

\* ---------------------------------------------------------------- claims
\* the primary source was asked and failed: an error, or zero results
PrimaryFailed(outcome) ==
    \/ outcome.kind \in FailureKinds
    \/ outcome.kind = "ok" /\ ResponseResults(outcome) = <<>>

\* the fallback tier supplied the corpus of the last call
UsedFallback == ~Configured \/ PrimaryFailed(last.outcome)

\* C1: whatever the title and whatever the primary source did, the corpus
\* that the Corpus Provider returns holds at least one description.
C1_CorpusNeverEmpty ==
    last.called => (~last.res.raised /\ Len(last.res.corpus) >= 1)

\* C2: extract_skills returns a list and raises nothing, for every title,
\* every top_n and every failure of the primary source, of the model or of
\* the ranking.
C2_ExtractSkillsTotal ==
    last.called => ~last.res.raised

C2_Witness ==
    /\ last.called
    /\ last.outcome.kind = "timeout"
    /\ last.lib = "raise"
    /\ last.res.skills = <<>>
    /\ ~last.res.raised

\* C3: the list extract_skills returns has at most top_n elements; with
\* top_n = 0 it is empty.
C3_AtMostTopN ==
    last.called => Len(last.res.skills) <= last.top_n

\* C4: concurrent first calls of get_skill_service run at most one
\* construction of the service, and every caller gets the same instance.
C4_InitializeOnce ==
    /\ Len(instances) <= 1
    /\ \A s, t \in Threads :
          (tpc[s] = "done" /\ tpc[t] = "done") => tobs[s] = tobs[t]

\* C5: when the primary source is configured and fails, the corpus is the
\* one the provider returns for the same title without credentials.
C5_FailureFallsBackAsUnconfigured ==
    (last.called /\ Configured /\ PrimaryFailed(last.outcome)) =>
        /\ ~last.res.raised
        /\ last.res.corpus =
              FetchJobDescriptions(last.job_title, None, None, NotAttempted).value

C5_Witness ==
    /\ last.called
    /\ Configured
    /\ last.outcome.kind = "http_error"
    /\ last.base = KeyFlutter
    /\ last.res.corpus = MOCK_JOB_DESCRIPTIONS[KeyFlutter]

\* C6: the fallback lookup trims and case-folds the title and returns the
\* table entry of that key, or the "default" entry when there is none; the
\* corpus is never empty (3 descriptions for "flutter developer" in any
\* casing and padding, the 2 default ones for an unknown title).
C6_MockLookup ==
    (last.called /\ UsedFallback) =>
        /\ last.res.corpus =
              (IF last.base \in MockKeys THEN MOCK_JOB_DESCRIPTIONS[last.base]
               ELSE MOCK_JOB_DESCRIPTIONS[KeyDefault])
        /\ Len(last.res.corpus) >= 1
        /\ last.base = KeyFlutter => Len(last.res.corpus) = 3
        /\ last.base \notin MockKeys => Len(last.res.corpus) = 2

C6_Witness ==
    /\ last.called
    /\ ~Configured
    /\ last.job_title = MakeTitle(KeyFlutter, "upper", 1, 1)
    /\ Len(last.res.corpus) = 3

\* C7: a service whose model failed to load returns the empty list from
\* every extract_skills call, raising nothing, and its _kw_model handle
\* stays None.
C7_EmptyWithoutModel ==
    (last.called /\ last.kw_model = None) =>
        (last.res.skills = <<>> /\ ~last.res.raised)

C7_HandleStaysNone ==
    \A i \in DOMAIN instances :
        instances[i].kw_model = None =>
            (i \in DOMAIN instances' /\ instances'[i].kw_model = None)

\* C7: both parts, in every state and at every step: the calls on a service
\* without a model return the empty list, and no step reloads the model.
C7_ModelUnavailable == [](C7_EmptyWithoutModel) /\ [][C7_HandleStaysNone]_vars

C7_Witness ==
    /\ last.called
    /\ last.kw_model = None
    /\ instances[skill_service].kw_model = None
    /\ last.top_n > 0
    /\ Len(last.res.text) > 0
    /\ last.res.skills = <<>>

\* C8: an aggregated text that yields no candidate (empty, or stop words
\* only) gives the empty result, not an error.
C8_ZeroCandidates ==
    (last.called /\ Candidates(last.res.text) = <<>>) =>
        (last.res.skills = <<>> /\ ~last.res.raised)

C8_Witness ==
    /\ last.called
    /\ last.kw_model # None
    /\ last.top_n > 0
    /\ last.res.ranked
    /\ last.res.text # <<>>
    /\ Candidates(last.res.text) = <<>>
    /\ last.res.skills = <<>>

\* C9: the Diversity Selector's ordered result holds no candidate twice.
C9_NoDuplicates ==
    \A r \in DOMAIN run :
        \A i, j \in 1..Len(run[r].selected) :
            i # j => run[r].selected[i] # run[r].selected[j]

C9_Witness ==
    /\ run[1].pc = "done"
    /\ sel.n = MaxCand
    /\ Len(run[1].selected) = MaxCand

\* C10: two runs of the Diversity Selector on the same scored candidates,
\* top_n and diversity give the same ordered result, ties included.
C10_Deterministic ==
    (run[1].pc = "done" /\ run[2].pc = "done") =>
        run[1].selected = run[2].selected

\* both runs are over, on candidates that all tie at every step
C10_Witness ==
    /\ run[1].pc = "done"
    /\ run[2].pc = "done"
    /\ sel.n = MaxCand
    /\ \A c, o \in 1..sel.n : sel.rel[c] = sel.rel[o]
    /\ \A c, o \in 1..sel.n : c # o => sel.sim[c][o] = 0
    /\ Len(run[2].selected) = MaxCand

\* C11: the greedy selection of steps 1-4 ends, and the sequence it returns
\* has exactly min(top_n, number of candidates) elements, top_n = 0 and the
\* empty candidate set included.
C11_LengthIsMin ==
    \A r \in DOMAIN run :
        run[r].pc = "done" =>
            Len(run[r].selected) = (IF sel.top_n < sel.n THEN sel.top_n ELSE sel.n)

\* C12: one invocation of the Corpus Provider sends at most one request to
\* the primary source, and none when a credential is absent.
C12_AtMostOneRequest ==
    last.called =>
        /\ last.res.http_calls <= 1
        /\ ~Configured => last.res.http_calls = 0

\* a request failed and the fallback answered, after that one request
C12_Witness ==
    /\ last.called
    /\ Configured
    /\ last.outcome.kind = "network_error"
    /\ last.res.http_calls = 1
    /\ last.res.corpus = GetMockDescriptions(last.job_title)

====
